---- MODULE Spec2Model ----
(***************************************************************************)
(* The order matching engine of main.py: OrderBook.add_order with its      *)
(* match_orders and _insert_order, over the singly linked Order lists      *)
(* held in buy_orders and sell_orders, and AtomicInteger for quantities.   *)
(*                                                                         *)
(* Prices are Python floats in the source; only their order and equality   *)
(* are used, so the model takes them from 1..MaxPrice.  An Order object is *)
(* an index into the sequence orders (its identity); because every call    *)
(* constructs exactly one Order, an earlier submitted order has a smaller  *)
(* index.  ctypes.c_int wraps at 32 bits; the quantities of the model stay *)
(* far below that, so the stored and the computed value coincide.          *)
(***************************************************************************)
EXTENDS Integers, Sequences, FiniteSets, TLC

\* ---- bounds of the model ----
MaxCalls == 3
MaxQty == 3
MaxPrice == 2
NumThreads == 2

\* ---- program constants ----
NumSlots == 1024
None == 0

\* The instrument the calls are made on, and the slots of the two arrays the
\* model keeps (the first and the last of the NumSlots).
Tickers == {0}
Slots == {0, NumSlots - 1}
Sides == {"Buy", "Sell"}
Threads == 1..NumThreads

VARIABLES
    orders,       \* the Order objects constructed so far (line 52), by identity
    buy_orders,   \* OrderBook.buy_orders: slot -> head Order or None
    sell_orders,  \* OrderBook.sell_orders: slot -> head Order or None
    log,          \* history: one record per add_order call that has ended
    pc,           \* per thread: "idle", or the source line it executes next
    fr,           \* per thread: the local variables of its add_order call
    cell,         \* AtomicInteger.value of one AtomicInteger taken by itself
    initial,      \* history: the value it was constructed with
    adds          \* per thread: its call of add on it, and its ended calls

vars == <<orders, buy_orders, sell_orders, log, pc, fr, cell, initial, adds>>

\* The order book and its callers, and the AtomicInteger taken by itself.
book_vars == <<orders, buy_orders, sell_orders, log, pc, fr>>
atomic_vars == <<cell, initial, adds>>

RECURSIVE Sum(_)
Sum(seq) == IF seq = <<>> THEN 0 ELSE Head(seq) + Sum(Tail(seq))

\* Min that takes its first argument: the incoming quantity, whatever rests.
Min_first(a, b) == a

Min(a, b) == IF a <= b THEN a ELSE b

\* Indexing that lands every ticker on the first entry.
Slot_zero(ticker) == ticker - ticker

\* list[ticker] of a Python list of NumSlots entries: a negative index counts
\* from the end.
Slot(ticker) == IF ticker < 0 THEN ticker + NumSlots ELSE ticker

\* The indexes such a list accepts.
InRange(ticker) == -NumSlots <= ticker /\ ticker < NumSlots

\* class Order, __init__
Order(order_type, ticker, quantity, price) ==
    [order_type |-> order_type, ticker |-> ticker, quantity |-> quantity,
     price |-> price, next |-> None]

\* AtomicInteger.add run without interruption: the value stored and returned.
\* The test of line 18 compares a value read from a c_int with its own c_int
\* conversion and always succeeds, so the loop body runs once.
AtomicAdd(value, delta) == value + delta

AtomicSubtract(value, delta) == AtomicAdd(value, -delta)

\* crosses with the two comparisons exchanged.
crosses_swapped(order_type, resting_price, price) ==
    IF order_type = "Buy" THEN resting_price >= price ELSE resting_price <= price

\* crosses with strict comparisons: equal prices would not match.
crosses_strict(order_type, resting_price, price) ==
    IF order_type = "Buy" THEN resting_price < price ELSE resting_price > price

\* The loop conditions of match_orders (lines 99 and 113): the resting head
\* of the opposite side is matchable by an incoming order of order_type.
crosses(order_type, resting_price, price) ==
    IF order_type = "Buy" THEN resting_price <= price ELSE resting_price >= price

\* goes_first with the two comparisons exchanged.
goes_first_swapped(order_type, head_price, price) ==
    \/ order_type = "Buy" /\ head_price >= price
    \/ order_type = "Sell" /\ head_price <= price

\* _insert_order, line 76: the new order becomes the head.
goes_first(order_type, head_price, price) ==
    \/ order_type = "Buy" /\ head_price <= price
    \/ order_type = "Sell" /\ head_price >= price

\* walks_on with the two comparisons exchanged.
walks_on_swapped(order_type, next_price, price) ==
    \/ order_type = "Buy" /\ next_price < price
    \/ order_type = "Sell" /\ next_price > price

\* _insert_order, line 83 (after `current.next and`): step past current.next.
walks_on(order_type, next_price, price) ==
    \/ order_type = "Buy" /\ next_price > price
    \/ order_type = "Sell" /\ next_price < price

Book == [orders |-> orders, buy_orders |-> buy_orders, sell_orders |-> sell_orders]

EmptyBook ==
    [orders |-> <<>>, buy_orders |-> [s \in Slots |-> None],
     sell_orders |-> [s \in Slots |-> None]]

\* match_orders, Buy branch (lines 98-110), for the incoming order n.
\* executed_trades holds the tuples (price, quantity, ticker) of line 101;
\* against is history: the resting order each trade was executed with.
RECURSIVE match_buy(_, _, _, _)
match_buy(b, n, executed_trades, against) ==
    LET new_order == b.orders[n]
        slot == Slot(new_order.ticker)
        s == b.sell_orders[slot]
    IN  IF s # None /\ crosses("Buy", b.orders[s].price, new_order.price)
        THEN LET matched_quantity == Min(new_order.quantity, b.orders[s].quantity)
                 trades == Append(executed_trades,
                                  <<new_order.price, matched_quantity, new_order.ticker>>)
                 agst == Append(against, s)
                 sq == AtomicSubtract(b.orders[s].quantity, matched_quantity)
                 heads == IF sq = 0
                          THEN [b.sell_orders EXCEPT ![slot] = b.orders[s].next]
                          ELSE b.sell_orders
                 nq == AtomicSubtract(new_order.quantity, matched_quantity)
                 b2 == [b EXCEPT !.orders = [@ EXCEPT ![s].quantity = sq,
                                                      ![n].quantity = nq],
                                 !.sell_orders = heads]
             IN  IF nq = 0
                 THEN [book |-> b2, executed_trades |-> trades, against |-> agst,
                       raised |-> FALSE]
                 ELSE match_buy(b2, n, trades, agst)
        ELSE [book |-> b, executed_trades |-> executed_trades, against |-> against,
              raised |-> FALSE]

\* match_orders, Sell branch (lines 112-124).  Line 114 takes min() of two
\* AtomicInteger objects, which define no ordering: Python raises TypeError
\* on the first iteration, before anything is changed, so lines 115-124
\* never run.
match_sell(b, n) ==
    LET new_order == b.orders[n]
        buy == b.buy_orders[Slot(new_order.ticker)]
    IN  [book |-> b, executed_trades |-> <<>>, against |-> <<>>,
         raised |-> buy # None /\ crosses("Sell", b.orders[buy].price, new_order.price)]

\* match_orders.  Its first statement on either branch (lines 98 and 112)
\* indexes a list of NumSlots entries with the ticker: out of range, Python
\* raises IndexError there, before anything is changed.
match_orders(b, n) ==
    IF ~InRange(b.orders[n].ticker)
    THEN [book |-> b, executed_trades |-> <<>>, against |-> <<>>, raised |-> TRUE]
    ELSE IF b.orders[n].order_type = "Buy" THEN match_buy(b, n, <<>>, <<>>)
    ELSE match_sell(b, n)

\* _insert_order, lines 82-84: the node after which the new order is linked.
RECURSIVE traverse(_, _, _)
traverse(os, current, n) ==
    IF /\ os[current].next # None
       /\ walks_on(os[n].order_type, os[os[current].next].price, os[n].price)
    THEN traverse(os, os[current].next, n)
    ELSE current

\* _insert_order: the Order objects and the order_list after linking n.
insert_order(os, order_list, ticker, n) ==
    LET slot == Slot(ticker)
        head == order_list[slot]
    IN  IF head = None
        THEN [orders |-> os, order_list |-> [order_list EXCEPT ![slot] = n]]
        ELSE IF goes_first(os[n].order_type, os[head].price, os[n].price)
        THEN [orders |-> [os EXCEPT ![n].next = head],
              order_list |-> [order_list EXCEPT ![slot] = n]]
        ELSE LET current == traverse(os, head, n)
             IN  [orders |-> [os EXCEPT ![n].next = os[current].next,
                                        ![current].next = n],
                  order_list |-> order_list]

\* add_order run without interruption on the book b: the book afterwards,
\* whether the call returned or raised, and what it returned.
add_order_seq(b, order_type, ticker, quantity, price) ==
    LET n == Len(b.orders) + 1
        b0 == [b EXCEPT !.orders = Append(@, Order(order_type, ticker, quantity, price))]
        m == match_orders(b0, n)
        order_list == IF order_type = "Buy" THEN m.book.buy_orders ELSE m.book.sell_orders
        ins == insert_order(m.book.orders, order_list, ticker, n)
        b1 == IF m.book.orders[n].quantity > 0
              THEN IF order_type = "Buy"
                   THEN [m.book EXCEPT !.orders = ins.orders, !.buy_orders = ins.order_list]
                   ELSE [m.book EXCEPT !.orders = ins.orders, !.sell_orders = ins.order_list]
              ELSE m.book
    IN  IF m.raised
        THEN [book |-> b0, status |-> "raised", executed_trades |-> <<>>,
              against |-> <<>>, order |-> n]
        ELSE [book |-> b1, status |-> "returned", executed_trades |-> m.executed_trades,
              against |-> m.against, order |-> n]

Call(order_type, ticker, quantity, price, r) ==
    [order_type |-> order_type, ticker |-> ticker, quantity |-> quantity,
     price |-> price, status |-> r.status, executed_trades |-> r.executed_trades,
     against |-> r.against, order |-> r.order]

\* The locals of a thread that is in no call.
NoFrame ==
    [new_order |-> None, executed_trades |-> <<>>, against |-> <<>>, cur |-> None,
     matched_quantity |-> 0, current |-> 0, head |-> None, submitted |-> 0]

\* A thread that is in no call of AtomicInteger.add.
NoAdd == [pc |-> "idle", delta |-> 0, current |-> 0, subtract |-> FALSE, ended |-> <<>>]

\* OrderBook() of line 178, no thread in a call; AtomicInteger() (line 9).
Init ==
    /\ orders = <<>>
    /\ buy_orders = [s \in Slots |-> None]
    /\ sell_orders = [s \in Slots |-> None]
    /\ log = <<>>
    /\ pc = [t \in Threads |-> "idle"]
    /\ fr = [t \in Threads |-> NoFrame]
    /\ cell = 0
    /\ initial = 0
    /\ adds = [t \in Threads |-> NoAdd]

\* One whole call of OrderBook.add_order, as a single caller makes it.
add_order(order_type, ticker, quantity, price) ==
    /\ Len(log) < MaxCalls
    /\ LET r == add_order_seq(Book, order_type, ticker, quantity, price)
       IN  /\ orders' = r.book.orders
           /\ buy_orders' = r.book.buy_orders
           /\ sell_orders' = r.book.sell_orders
           /\ log' = Append(log, Call(order_type, ticker, quantity, price, r))
    /\ UNCHANGED <<pc, fr>>
    /\ UNCHANGED atomic_vars

Next ==
    \E order_type \in Sides, ticker \in Tickers,
       quantity \in 1..MaxQty, price \in 1..MaxPrice :
        add_order(order_type, ticker, quantity, price)

Spec == Init /\ [][Next]_vars

\* The same single caller, passing quantities that are not positive as well.
QtyNext ==
    \E order_type \in Sides, ticker \in Tickers,
       quantity \in -MaxQty..MaxQty, price \in 1..MaxPrice :
        add_order(order_type, ticker, quantity, price)

SpecQty == Init /\ [][QtyNext]_vars

\* The same single caller, passing the first and the last ticker of the
\* registry and the tickers just outside of it.
TickerNext ==
    \E order_type \in Sides, ticker \in {-1, 0, NumSlots - 1, NumSlots},
       quantity \in 1..MaxQty, price \in 1..MaxPrice :
        add_order(order_type, ticker, quantity, price)

SpecTicker == Init /\ [][TickerNext]_vars

\* ---------------------------------------------------------------------
\* Threads calling add_order concurrently (lines 181-185).  The source takes
\* no lock, so a thread can be preempted between any two lines; inside
\* AtomicInteger.add the read of line 16 and the write of line 19 are
\* separate steps.  A label Ln is the thread about to execute line n; in
\* match_orders fr.cur is the local sell_orders / buy_orders, and in
\* AtomicInteger.add fr.current is the local current.
\* ---------------------------------------------------------------------

New(t) == fr[t].new_order
NewSlot(t) == Slot(orders[New(t)].ticker)

\* The end of a call: `return executed_trades` (lines 64, 107, 127) or the
\* exception leaving add_order.
Ended(t, status) ==
    /\ log' = Append(log,
                     Call(orders[New(t)].order_type, orders[New(t)].ticker,
                          fr[t].submitted, orders[New(t)].price,
                          [status |-> status,
                           executed_trades |-> IF status = "raised" THEN <<>>
                                               ELSE fr[t].executed_trades,
                           against |-> IF status = "raised" THEN <<>>
                                       ELSE fr[t].against,
                           order |-> New(t)]))
    /\ pc' = [pc EXCEPT ![t] = "idle"]
    /\ fr' = [fr EXCEPT ![t] = NoFrame]
    /\ UNCHANGED atomic_vars

\* The thread goes on to the line `label`; the lone AtomicInteger is not part
\* of any step of add_order.
Goto(t, label) == pc' = [pc EXCEPT ![t] = label] /\ UNCHANGED atomic_vars

\* lines 52-58 and 95-97: construct the Order and enter match_orders.
enter_add_order(t, order_type, ticker, quantity, price) ==
    /\ pc[t] = "idle"
    /\ Len(orders) < MaxCalls
    /\ orders' = Append(orders, Order(order_type, ticker, quantity, price))
    /\ fr' = [fr EXCEPT ![t] = [NoFrame EXCEPT !.new_order = Len(orders) + 1,
                                              !.submitted = quantity]]
    /\ Goto(t, IF order_type = "Buy" THEN "L98" ELSE "L112")
    /\ UNCHANGED <<buy_orders, sell_orders, log>>

\* line 98: sell_orders = self.sell_orders[new_order.ticker]
L98(t) ==
    /\ pc[t] = "L98"
    /\ fr' = [fr EXCEPT ![t].cur = sell_orders[NewSlot(t)]]
    /\ Goto(t, "L99")
    /\ UNCHANGED <<orders, buy_orders, sell_orders, log>>

\* line 99: while sell_orders and sell_orders.price <= new_order.price;
\* when it fails, line 127 returns to add_order, line 61.
L99(t) ==
    /\ pc[t] = "L99"
    /\ IF fr[t].cur # None
          /\ crosses("Buy", orders[fr[t].cur].price, orders[New(t)].price)
       THEN Goto(t, "L100") ELSE Goto(t, "L61")
    /\ UNCHANGED <<orders, buy_orders, sell_orders, log, fr>>

\* lines 100-101: matched_quantity = min(...); executed_trades.append(...)
L100(t) ==
    /\ pc[t] = "L100"
    /\ LET matched_quantity == Min(orders[New(t)].quantity, orders[fr[t].cur].quantity)
       IN  fr' = [fr EXCEPT ![t].matched_quantity = matched_quantity,
                            ![t].executed_trades =
                                Append(@, <<orders[New(t)].price, matched_quantity,
                                            orders[New(t)].ticker>>),
                            ![t].against = Append(@, fr[t].cur)]
    /\ Goto(t, "L104")
    /\ UNCHANGED <<orders, buy_orders, sell_orders, log>>

\* line 104 entering AtomicInteger.add, line 16: current = self.value.value
L104_read(t) ==
    /\ pc[t] = "L104"
    /\ fr' = [fr EXCEPT ![t].current = orders[fr[t].cur].quantity]
    /\ Goto(t, "L104w")
    /\ UNCHANGED <<orders, buy_orders, sell_orders, log>>

\* AtomicInteger.add, lines 17-20, and the test of line 104 on its result
L104_write(t) ==
    /\ pc[t] = "L104w"
    /\ LET new_value == AtomicAdd(fr[t].current, -fr[t].matched_quantity)
       IN  /\ orders' = [orders EXCEPT ![fr[t].cur].quantity = new_value]
           /\ IF new_value = 0 THEN Goto(t, "L105") ELSE Goto(t, "L106")
    /\ UNCHANGED <<buy_orders, sell_orders, log, fr>>

\* line 105: self.sell_orders[new_order.ticker] = sell_orders.next
L105(t) ==
    /\ pc[t] = "L105"
    /\ sell_orders' = [sell_orders EXCEPT ![NewSlot(t)] = orders[fr[t].cur].next]
    /\ Goto(t, "L106")
    /\ UNCHANGED <<orders, buy_orders, log, fr>>

\* line 106 entering AtomicInteger.add, line 16
L106_read(t) ==
    /\ pc[t] = "L106"
    /\ fr' = [fr EXCEPT ![t].current = orders[New(t)].quantity]
    /\ Goto(t, "L106w")
    /\ UNCHANGED <<orders, buy_orders, sell_orders, log>>

\* AtomicInteger.add, lines 17-20, and the test of line 106: when the new
\* order is used up line 107 returns to add_order, line 61.
L106_write(t) ==
    /\ pc[t] = "L106w"
    /\ LET new_value == AtomicAdd(fr[t].current, -fr[t].matched_quantity)
       IN  /\ orders' = [orders EXCEPT ![New(t)].quantity = new_value]
           /\ IF new_value = 0 THEN Goto(t, "L61") ELSE Goto(t, "L110")
    /\ UNCHANGED <<buy_orders, sell_orders, log, fr>>

\* line 110: sell_orders = self.sell_orders[new_order.ticker]
L110(t) ==
    /\ pc[t] = "L110"
    /\ fr' = [fr EXCEPT ![t].cur = sell_orders[NewSlot(t)]]
    /\ Goto(t, "L99")
    /\ UNCHANGED <<orders, buy_orders, sell_orders, log>>

\* line 112: buy_orders = self.buy_orders[new_order.ticker]
L112(t) ==
    /\ pc[t] = "L112"
    /\ fr' = [fr EXCEPT ![t].cur = buy_orders[NewSlot(t)]]
    /\ Goto(t, "L113")
    /\ UNCHANGED <<orders, buy_orders, sell_orders, log>>

\* line 113: while buy_orders and buy_orders.price >= new_order.price
L113(t) ==
    /\ pc[t] = "L113"
    /\ IF fr[t].cur # None
          /\ crosses("Sell", orders[fr[t].cur].price, orders[New(t)].price)
       THEN Goto(t, "L114") ELSE Goto(t, "L61")
    /\ UNCHANGED <<orders, buy_orders, sell_orders, log, fr>>

\* line 114: min() of two AtomicInteger objects raises TypeError, which
\* nothing in match_orders or add_order catches.
L114(t) ==
    /\ pc[t] = "L114"
    /\ Ended(t, "raised")
    /\ UNCHANGED <<orders, buy_orders, sell_orders>>

\* line 61: if new_order.quantity.get() > 0; otherwise line 64 returns
L61(t) ==
    /\ pc[t] = "L61"
    /\ IF orders[New(t)].quantity > 0
       THEN Goto(t, "L72") /\ UNCHANGED <<log, fr>>
       ELSE Ended(t, "returned")
    /\ UNCHANGED <<orders, buy_orders, sell_orders>>

OrderList(t) == IF orders[New(t)].order_type = "Buy" THEN buy_orders ELSE sell_orders

\* order_list[ticker] = new_order (lines 75 and 79)
SetHead(t) ==
    IF orders[New(t)].order_type = "Buy"
    THEN /\ buy_orders' = [buy_orders EXCEPT ![NewSlot(t)] = New(t)]
         /\ UNCHANGED sell_orders
    ELSE /\ sell_orders' = [sell_orders EXCEPT ![NewSlot(t)] = New(t)]
         /\ UNCHANGED buy_orders

\* line 72: head = order_list[ticker]
L72(t) ==
    /\ pc[t] = "L72"
    /\ fr' = [fr EXCEPT ![t].head = OrderList(t)[NewSlot(t)]]
    /\ Goto(t, "L73")
    /\ UNCHANGED <<orders, buy_orders, sell_orders, log>>

\* lines 73 and 76: the three cases of _insert_order
L73(t) ==
    /\ pc[t] = "L73"
    /\ IF fr[t].head = None THEN Goto(t, "L75")
       ELSE IF goes_first(orders[New(t)].order_type, orders[fr[t].head].price,
                          orders[New(t)].price)
       THEN Goto(t, "L78") ELSE Goto(t, "L82")
    /\ UNCHANGED <<orders, buy_orders, sell_orders, log, fr>>

\* line 75: order_list[ticker] = new_order, then add_order returns (line 64)
L75(t) ==
    /\ pc[t] = "L75"
    /\ SetHead(t)
    /\ Ended(t, "returned")
    /\ UNCHANGED orders

\* line 78: new_order.next = head
L78(t) ==
    /\ pc[t] = "L78"
    /\ orders' = [orders EXCEPT ![New(t)].next = fr[t].head]
    /\ Goto(t, "L79")
    /\ UNCHANGED <<buy_orders, sell_orders, log, fr>>

\* line 79: order_list[ticker] = new_order, then add_order returns (line 64)
L79(t) ==
    /\ pc[t] = "L79"
    /\ SetHead(t)
    /\ Ended(t, "returned")
    /\ UNCHANGED orders

\* line 82: current = head (kept in fr.cur)
L82(t) ==
    /\ pc[t] = "L82"
    /\ fr' = [fr EXCEPT ![t].cur = fr[t].head]
    /\ Goto(t, "L83")
    /\ UNCHANGED <<orders, buy_orders, sell_orders, log>>

\* line 83: while current.next and (...)
L83(t) ==
    /\ pc[t] = "L83"
    /\ IF /\ orders[fr[t].cur].next # None
          /\ walks_on(orders[New(t)].order_type, orders[orders[fr[t].cur].next].price,
                      orders[New(t)].price)
       THEN Goto(t, "L84") ELSE Goto(t, "L85")
    /\ UNCHANGED <<orders, buy_orders, sell_orders, log, fr>>

\* L84 that does not advance along the list.
L84_stay(t) ==
    /\ pc[t] = "L84"
    /\ Goto(t, "L83")
    /\ UNCHANGED <<orders, buy_orders, sell_orders, log, fr>>

\* line 84: current = current.next
L84(t) ==
    /\ pc[t] = "L84"
    /\ fr' = [fr EXCEPT ![t].cur = orders[fr[t].cur].next]
    /\ Goto(t, "L83")
    /\ UNCHANGED <<orders, buy_orders, sell_orders, log>>

\* line 85: new_order.next = current.next
L85(t) ==
    /\ pc[t] = "L85"
    /\ orders' = [orders EXCEPT ![New(t)].next = orders[fr[t].cur].next]
    /\ Goto(t, "L86")
    /\ UNCHANGED <<buy_orders, sell_orders, log, fr>>

\* line 86: current.next = new_order, then add_order returns (line 64)
L86(t) ==
    /\ pc[t] = "L86"
    /\ orders' = [orders EXCEPT ![fr[t].cur].next = New(t)]
    /\ Ended(t, "returned")
    /\ UNCHANGED <<buy_orders, sell_orders>>

ConcNext ==
    \E t \in Threads :
        \/ \E order_type \in Sides, ticker \in Tickers,
              quantity \in 1..MaxQty, price \in 1..MaxPrice :
               enter_add_order(t, order_type, ticker, quantity, price)
        \/ L98(t) \/ L99(t) \/ L100(t) \/ L104_read(t) \/ L104_write(t) \/ L105(t)
        \/ L106_read(t) \/ L106_write(t) \/ L110(t)
        \/ L112(t) \/ L113(t) \/ L114(t)
        \/ L61(t) \/ L72(t) \/ L73(t) \/ L75(t) \/ L78(t) \/ L79(t)
        \/ L82(t) \/ L83(t) \/ L84(t) \/ L85(t) \/ L86(t)

ConcSpec == Init /\ [][ConcNext]_vars

\* ---------------------------------------------------------------------
\* One AtomicInteger and threads calling add and subtract on it.  The read
\* of line 16 and the write of line 19 are separate steps; nothing in add
\* excludes another thread between them.
\* ---------------------------------------------------------------------

\* AtomicInteger(value), lines 9-10
AtomicInit ==
    /\ orders = <<>>
    /\ buy_orders = [s \in Slots |-> None]
    /\ sell_orders = [s \in Slots |-> None]
    /\ log = <<>>
    /\ pc = [t \in Threads |-> "idle"]
    /\ fr = [t \in Threads |-> NoFrame]
    /\ cell \in 0..MaxQty
    /\ initial = cell
    /\ adds = [t \in Threads |-> NoAdd]

CallsOfAdd == Sum([t \in Threads |-> Len(adds[t].ended)
                                     + IF adds[t].pc = "idle" THEN 0 ELSE 1])

\* add(delta) is called (line 12)
add(t, delta) ==
    /\ adds[t].pc = "idle"
    /\ CallsOfAdd < MaxCalls
    /\ adds' = [adds EXCEPT ![t].pc = "L16", ![t].delta = delta, ![t].subtract = FALSE]
    /\ UNCHANGED <<cell, initial>>
    /\ UNCHANGED book_vars

\* subtract(delta), lines 22-24: return self.add(-delta)
subtract(t, delta) ==
    /\ adds[t].pc = "idle"
    /\ CallsOfAdd < MaxCalls
    /\ adds' = [adds EXCEPT ![t].pc = "L16", ![t].delta = -delta, ![t].subtract = TRUE]
    /\ UNCHANGED <<cell, initial>>
    /\ UNCHANGED book_vars

\* line 16: current = self.value.value
add_L16(t) ==
    /\ adds[t].pc = "L16"
    /\ adds' = [adds EXCEPT ![t].pc = "L17", ![t].current = cell]
    /\ UNCHANGED <<cell, initial>>
    /\ UNCHANGED book_vars

\* lines 17-20: new_value = current + delta; the test of line 18 holds;
\* self.value.value = new_value; return new_value
add_L17(t) ==
    /\ adds[t].pc = "L17"
    /\ LET new_value == AtomicAdd(adds[t].current, adds[t].delta)
       IN  /\ cell' = new_value
           /\ adds' = [adds EXCEPT ![t] =
                         [NoAdd EXCEPT !.ended =
                             Append(adds[t].ended,
                                    [delta |-> adds[t].delta, current |-> adds[t].current,
                                     subtract |-> adds[t].subtract,
                                     returned |-> new_value])]]
    /\ UNCHANGED initial
    /\ UNCHANGED book_vars

AtomicNext ==
    \E t \in Threads :
        \/ \E delta \in 1..MaxQty : add(t, delta)
        \/ \E delta \in 0..MaxQty : subtract(t, delta)
        \/ add_L16(t)
        \/ add_L17(t)

AtomicSpec == AtomicInit /\ [][AtomicNext]_vars

\* ---------------------------------------------------------------------
\* Reading the book and the history
\* ---------------------------------------------------------------------

\* The Orders linked from head, head first (at most fuel of them).
RECURSIVE ChainN(_, _, _)
ChainN(os, head, fuel) ==
    IF head = None \/ fuel = 0 THEN <<>>
    ELSE <<head>> \o ChainN(os, os[head].next, fuel - 1)

Chain(head) == ChainN(orders, head, Len(orders))

Range(seq) == {seq[i] : i \in 1..Len(seq)}

\* The quantities now held by the Orders of seq.
Quantities(seq) == [i \in 1..Len(seq) |-> orders[seq[i]].quantity]
\* The quantity of the Fills a call returned.
TradesQuantity(call) ==
    Sum([k \in 1..Len(call.executed_trades) |-> call.executed_trades[k][2]])
CallsOn(slot) == SelectSeq(log, LAMBDA c : Slot(c.ticker) = slot)
FilledQuantity(calls) == Sum([i \in 1..Len(calls) |-> TradesQuantity(calls[i])])
SubmittedQuantity(calls) == Sum([i \in 1..Len(calls) |-> calls[i].quantity])

Strictly(order_type, p, q) == IF order_type = "Buy" THEN p > q ELSE p < q

\* What a caller of print_orders sees of one list: price and quantity of each
\* Order linked from head.
SideOf(os, head) ==
    LET c == ChainN(os, head, Len(os))
    IN  [i \in 1..Len(c) |-> <<os[c[i]].price, os[c[i]].quantity>>]

BookContents(b) ==
    [slot \in Slots |-> <<SideOf(b.orders, b.buy_orders[slot]),
                          SideOf(b.orders, b.sell_orders[slot])>>]

Perms(n) == {p \in [1..n -> 1..n] : \A i, j \in 1..n : p[i] = p[j] => i = j}

\* The calls log[p[k]], log[p[k+1]], ... made one at a time from the book b
\* return what the log says they returned and end in the present book.
RECURSIVE SerialMatches(_, _, _)
SerialMatches(b, p, k) ==
    IF k > Len(log) THEN BookContents(b) = BookContents(Book)
    ELSE LET c == log[p[k]]
             r == add_order_seq(b, c.order_type, c.ticker, c.quantity, c.price)
         IN  /\ r.status = c.status
             /\ r.executed_trades = c.executed_trades
             /\ SerialMatches(r.book, p, k + 1)

Quiescent == \A t \in Threads : pc[t] = "idle"

\* The quantity of the Fills that ended calls executed against the Order r.
FilledAgainst(r) ==
    Sum([i \in 1..Len(log) |->
            Sum([k \in 1..Len(log[i].against) |->
                    IF log[i].against[k] = r THEN log[i].executed_trades[k][2] ELSE 0])])

\* ---------------------------------------------------------------------
\* Claims
\* ---------------------------------------------------------------------

\* C1: every Fill carries the price of the resting order it was matched
\* against, never the price of the incoming order.
FillAtRestingPrice ==
    \A i \in 1..Len(log) : \A k \in 1..Len(log[i].executed_trades) :
        log[i].executed_trades[k][1] = orders[log[i].against[k]].price

\* C2: add_order with a valid instrument, a positive quantity and a
\* non-negative price never raises; it returns its list of Fills.
AddOrderNeverRaises ==
    \A i \in 1..Len(log) : log[i].status = "returned"

\* C3: conservation of quantity on every instrument: what rests plus what was
\* filled (each Fill counted for the incoming and for the resting order)
\* equals what was submitted.
Conservation ==
    \A slot \in Slots :
        Sum(Quantities(Chain(buy_orders[slot])))
          + Sum(Quantities(Chain(sell_orders[slot])))
          + 2 * FilledQuantity(CallsOn(slot))
        = SubmittedQuantity(CallsOn(slot))

\* C4: time priority at equal price: of two resting orders with the same
\* price, the earlier submitted one is ahead in its list, and an incoming
\* order that matches both matches the earlier one first.
EarlierFirst(seq) ==
    \A i, j \in 1..Len(seq) :
        i < j /\ orders[seq[i]].price = orders[seq[j]].price => seq[i] < seq[j]

TimePriority ==
    /\ \A slot \in Slots : /\ EarlierFirst(Chain(buy_orders[slot]))
                           /\ EarlierFirst(Chain(sell_orders[slot]))
    /\ \A i \in 1..Len(log) : EarlierFirst(log[i].against)

\* C5: the quantity of every Order, incoming or resting, is >= 0 in every
\* state of every interleaving of concurrent add_order calls.
NoNegativeQuantity ==
    \A o \in 1..Len(orders) : orders[o].quantity >= 0

\* C6: linearizability per instrument: once all concurrent calls have ended,
\* the Fill lists they returned and the contents of the book are those of the
\* same calls made one at a time in some order.
Linearizable ==
    Quiescent => \E p \in Perms(Len(log)) : SerialMatches(EmptyBook, p, 1)

\* C7: no double fill: the Fills executed against one resting order never sum
\* to more than the quantity it was submitted with.
NoDoubleFill ==
    \A i \in 1..Len(log) : FilledAgainst(log[i].order) <= log[i].quantity

\* C8: price priority: a call matches a resting order only when no strictly
\* better priced order of that side, resting when the call began, is still
\* unmatched; so its Fills come best resting price first.
PricePriorityStep ==
    Len(log') = Len(log) + 1 =>
        LET c == log'[Len(log')]
            side == IF c.order_type = "Buy" THEN "Sell" ELSE "Buy"
            opposite == IF side = "Sell" THEN Chain(sell_orders[Slot(c.ticker)])
                        ELSE Chain(buy_orders[Slot(c.ticker)])
        IN  \A k \in 1..Len(c.against) :
              /\ c.against[k] \in Range(opposite)
              /\ \A r \in Range(opposite) :
                    (\A j \in 1..k : c.against[j] # r) =>
                        ~Strictly(side, orders[r].price, orders[c.against[k]].price)

PricePriority == [][PricePriorityStep]_vars

\* A Buy swept two resting Sells of different prices, the cheaper one first,
\* and its remainder rests at the head of the Buy side.
PricePriorityWitness ==
    \E i \in 1..Len(log) :
        /\ log[i].order_type = "Buy"
        /\ Len(log[i].against) = 2
        /\ orders[log[i].against[1]].price < orders[log[i].against[2]].price
        /\ buy_orders[Slot(log[i].ticker)] = log[i].order
        /\ orders[log[i].order].quantity > 0

\* C9: after a call has returned the book is not crossed: no resting Buy has
\* a price >= the price of a resting Sell of the same instrument.
NotCrossed ==
    \A slot \in Slots :
        \A bo \in Range(Chain(buy_orders[slot])), so \in Range(Chain(sell_orders[slot])) :
            orders[bo].price < orders[so].price

\* A Buy matched a resting Sell and its remainder rests while a dearer Sell
\* is still resting.
NotCrossedWitness ==
    \E i \in 1..Len(log) :
        /\ log[i].order_type = "Buy"
        /\ log[i].executed_trades # <<>>
        /\ log[i].order \in Range(Chain(buy_orders[Slot(log[i].ticker)]))
        /\ sell_orders[Slot(log[i].ticker)] # None

\* C10: every Buy list is ordered by non-increasing price from the head and
\* every Sell list by non-decreasing price.
SortedChain(order_type, seq) ==
    \A i \in 1..Len(seq) - 1 :
        ~Strictly(order_type, orders[seq[i + 1]].price, orders[seq[i]].price)

SortedSides ==
    \A slot \in Slots : /\ SortedChain("Buy", Chain(buy_orders[slot]))
                        /\ SortedChain("Sell", Chain(sell_orders[slot]))

\* A list of three orders that the traversal of _insert_order has built, with
\* two different prices.
SortedSidesWitness ==
    \E slot \in Slots :
        \E seq \in {Chain(buy_orders[slot]), Chain(sell_orders[slot])} :
            /\ Len(seq) = 3
            /\ seq[3] = Len(orders)
            /\ orders[seq[1]].price # orders[seq[3]].price

\* C11: only live orders rest: every Order linked in a Buy or Sell list has a
\* quantity > 0; an order drained to zero is unlinked by the call that
\* drained it, and an incoming order that was fully matched is not inserted.
Linked ==
    UNION {Range(Chain(buy_orders[slot])) \cup Range(Chain(sell_orders[slot])) :
           slot \in Slots}

OnlyLiveOrdersRest ==
    /\ \A o \in Linked : orders[o].quantity > 0
    /\ \A o \in 1..Len(orders) : orders[o].quantity = 0 => o \notin Linked

\* A Buy drained one resting Sell and was drained itself by the next one,
\* which still rests: the drained Sell and the Buy are not linked.
OnlyLiveOrdersRestWitness ==
    \E i \in 1..Len(log) :
        /\ Len(log[i].against) = 2
        /\ orders[log[i].order].quantity = 0
        /\ orders[log[i].against[1]].quantity = 0
        /\ log[i].against[2] \in Linked
        /\ log[i].against[1] \notin Linked
        /\ log[i].order \notin Linked

\* A step that leaves both arrays of lists and every Order that existed
\* before it as they were.
BookUntouched ==
    /\ buy_orders' = buy_orders
    /\ sell_orders' = sell_orders
    /\ \A o \in 1..Len(orders) : orders'[o] = orders[o]

\* C12: add_order with a quantity <= 0 leaves every book side and every
\* resting order's quantity unchanged and produces no Fill.
NonPositiveRejectedStep ==
    (Len(log') = Len(log) + 1 /\ log'[Len(log')].quantity <= 0) =>
        /\ BookUntouched
        /\ log'[Len(log')].executed_trades = <<>>

NonPositiveRejected == [][NonPositiveRejectedStep]_vars

\* C13: add_order with a ticker outside 0..NumSlots-1 changes no book side
\* of any instrument and produces no Fill.
UnknownInstrumentRejectedStep ==
    (Len(log') = Len(log) + 1 /\ log'[Len(log')].ticker \notin 0..(NumSlots - 1)) =>
        /\ BookUntouched
        /\ log'[Len(log')].executed_trades = <<>>

UnknownInstrumentRejected == [][UnknownInstrumentRejectedStep]_vars

\* The calls of add and subtract that have ended, thread by thread.
RECURSIVE Concat(_)
Concat(seqs) == IF seqs = <<>> THEN <<>> ELSE Head(seqs) \o Concat(Tail(seqs))

EndedAdds == Concat([t \in Threads |-> adds[t].ended])

NoAddRunning == \A t \in Threads : adds[t].pc = "idle"

\* The calls e[p[k]], e[p[k+1]], ... made one after the other from the value v
\* return what they returned.
RECURSIVE SerialAdds(_, _, _, _)
SerialAdds(e, p, k, v) ==
    IF k > Len(e) THEN TRUE
    ELSE /\ e[p[k]].returned = v + e[p[k]].delta
         /\ SerialAdds(e, p, k + 1, v + e[p[k]].delta)

\* C14: the update of the cell is atomic: after any concurrent calls of add
\* and subtract the value is the initial value plus the sum of all deltas,
\* and the values returned are those of some serial order of the calls.
NoUpdateLost ==
    NoAddRunning =>
        /\ cell = initial + Sum([i \in 1..Len(EndedAdds) |-> EndedAdds[i].delta])
        /\ \E p \in Perms(Len(EndedAdds)) : SerialAdds(EndedAdds, p, 1, initial)

\* C15: subtract clamps at zero: called with an amount a >= 0 on a value
\* v >= 0 it leaves max(v - a, 0) in the cell.
ClampAtZero ==
    \A i \in 1..Len(EndedAdds) :
        LET e == EndedAdds[i]
        IN  (e.subtract /\ e.current >= 0) =>
                e.returned = IF e.current + e.delta >= 0 THEN e.current + e.delta ELSE 0

\* C16: no cross, no trade: when the opposite side is empty or its best
\* order does not cross the incoming price, add_order returns no Fill, leaves
\* the opposite side and every resting quantity as they were, and adds
\* exactly the new order, with its full quantity, to its own side.
NoCrossNoTradeStep ==
    Len(log') = Len(log) + 1 =>
        LET c == log'[Len(log')]
            slot == Slot(c.ticker)
            own == IF c.order_type = "Buy" THEN buy_orders[slot] ELSE sell_orders[slot]
            own_after == IF c.order_type = "Buy" THEN buy_orders'[slot]
                         ELSE sell_orders'[slot]
            best == IF c.order_type = "Buy" THEN sell_orders[slot] ELSE buy_orders[slot]
            best_after == IF c.order_type = "Buy" THEN sell_orders'[slot]
                          ELSE buy_orders'[slot]
            after == ChainN(orders', own_after, Len(orders'))
        IN  (\/ best = None
             \/ c.order_type = "Buy" /\ c.price < orders[best].price
             \/ c.order_type = "Sell" /\ c.price > orders[best].price) =>
                /\ c.status = "returned"
                /\ c.executed_trades = <<>>
                /\ best_after = best
                /\ ChainN(orders', best_after, Len(orders')) = Chain(best)
                /\ \A o \in 1..Len(orders) : orders'[o].quantity = orders[o].quantity
                /\ Len(after) = Len(Chain(own)) + 1
                /\ SelectSeq(after, LAMBDA o : o # c.order) = Chain(own)
                /\ orders'[c.order].quantity = c.quantity

NoCrossNoTrade == [][NoCrossNoTradeStep]_vars

\* The last call did not cross a resting opposite order and rests with its
\* full quantity next to an earlier order of its own side.
NoCrossNoTradeWitness ==
    /\ log # <<>>
    /\ LET c == log[Len(log)]
           slot == Slot(c.ticker)
           own == IF c.order_type = "Buy" THEN buy_orders[slot] ELSE sell_orders[slot]
           best == IF c.order_type = "Buy" THEN sell_orders[slot] ELSE buy_orders[slot]
       IN  /\ c.executed_trades = <<>>
           /\ best # None
           /\ orders[best].price # c.price
           /\ Len(Chain(own)) = 2
           /\ c.order \in Range(Chain(own))
           /\ orders[c.order].quantity = c.quantity

\* C17: exact price equality crosses: an incoming order whose price equals
\* the price of the best resting opposite order is matched against it; when
\* the quantities are equal too and nothing else rests, the call returns one
\* Fill of the full quantity at that price and leaves both sides empty.
EqualPriceCrossesStep ==
    Len(log') = Len(log) + 1 =>
        LET c == log'[Len(log')]
            slot == Slot(c.ticker)
            best == IF c.order_type = "Buy" THEN sell_orders[slot] ELSE buy_orders[slot]
        IN  (best # None /\ orders[best].price = c.price) =>
                /\ c.status = "returned"
                /\ Len(c.against) >= 1
                /\ c.against[1] = best
                /\ (Linked = {best} /\ orders[best].quantity = c.quantity) =>
                      /\ c.executed_trades = <<<<c.price, c.quantity, c.ticker>>>>
                      /\ buy_orders'[slot] = None
                      /\ sell_orders'[slot] = None

EqualPriceCrosses == [][EqualPriceCrossesStep]_vars

\* C18: no insertion is lost: when the concurrent calls were all for the
\* same instrument and the same side (so none of them crossed), then once
\* they have all returned every submitted order is linked in that side's list
\* with its full quantity.
NoInsertionLost ==
    (/\ Quiescent
     /\ \A i, j \in 1..Len(log) : /\ log[i].order_type = log[j].order_type
                                  /\ Slot(log[i].ticker) = Slot(log[j].ticker)) =>
        \A i \in 1..Len(log) :
            /\ log[i].status = "returned"
            /\ log[i].order \in Linked
            /\ orders[log[i].order].quantity = log[i].quantity

\* ---------------------------------------------------------------------
\* Termination of add_order
\* ---------------------------------------------------------------------

\* A call of add_order made while no other call is in progress and run to
\* its end without interruption: sequential use.
add_order_alone(order_type, ticker, quantity, price) ==
    /\ Quiescent
    /\ Len(orders) < MaxCalls
    /\ add_order(order_type, ticker, quantity, price)

\* The steps of thread t inside a call of add_order.
Run(t) ==
    \/ L98(t) \/ L99(t) \/ L100(t) \/ L104_read(t) \/ L104_write(t) \/ L105(t)
    \/ L106_read(t) \/ L106_write(t) \/ L110(t)
    \/ L112(t) \/ L113(t) \/ L114(t)
    \/ L61(t) \/ L72(t) \/ L73(t) \/ L75(t) \/ L78(t) \/ L79(t)
    \/ L82(t) \/ L83(t) \/ L84(t) \/ L85(t) \/ L86(t)

\* Calls in sequential use and calls of concurrent threads, with the
\* smallest and the largest quantity.
FairNext ==
    \/ \E order_type \in Sides, ticker \in Tickers,
          quantity \in {1, MaxQty}, price \in 1..MaxPrice :
           add_order_alone(order_type, ticker, quantity, price)
    \/ \E t \in Threads :
           \/ \E order_type \in Sides, ticker \in Tickers,
                 quantity \in {1, MaxQty}, price \in 1..MaxPrice :
                  enter_add_order(t, order_type, ticker, quantity, price)
           \/ Run(t)

\* The threads of lines 182-185 are scheduled fairly: one that is inside a
\* call goes on executing it.
FairSpec == Init /\ [][FairNext]_vars /\ \A t \in Threads : WF_vars(Run(t))

\* A whole call in sequential use: each iteration of its matching loop has
\* unlinked the head it matched, except that the last one may instead have
\* used up the incoming order; so it ran at most as many iterations as
\* orders rested on the opposite side.
LoopBoundStep ==
    (Len(log') = Len(log) + 1 /\ Len(orders') = Len(orders) + 1) =>
        LET c == log'[Len(log')]
            slot == Slot(c.ticker)
            opposite == IF c.order_type = "Buy" THEN Chain(sell_orders[slot])
                        ELSE Chain(buy_orders[slot])
            after == IF c.order_type = "Buy"
                     THEN ChainN(orders', sell_orders'[slot], Len(orders'))
                     ELSE ChainN(orders', buy_orders'[slot], Len(orders'))
            n == Len(c.against)
        IN  /\ n <= Len(opposite)
            /\ \A k \in 1..n : c.against[k] = opposite[k]
            /\ \A k \in 1..(n - 1) : c.against[k] \notin Range(after)
            /\ n > 0 => \/ c.against[n] \notin Range(after)
                        \/ orders'[c.order].quantity = 0

\* C19: every add_order call terminates: in sequential use the matching loop
\* runs at most as many iterations as orders rest on the opposite side, and
\* under fair interleaving of concurrent calls every call comes to its end.
EveryCallEnds ==
    /\ [][LoopBoundStep]_vars
    /\ \A t \in Threads : (pc[t] # "idle") ~> (pc[t] = "idle")

\* Every call has ended, one of them after two iterations of its matching
\* loop, and two calls overlapped: they ended in the other order than they
\* began.
EveryCallEndsWitness ==
    /\ Quiescent
    /\ Len(log) = MaxCalls
    /\ \E i \in 1..Len(log) : Len(log[i].against) = 2
    /\ \E i \in 1..Len(log) : log[i].order # i

\* ---------------------------------------------------------------------
\* Calls on two instruments
\* ---------------------------------------------------------------------

\* The two instruments whose slots the model keeps.
Instruments == Slots

\* Concurrent threads calling add_order on either instrument, with the
\* smallest and the largest quantity.
MultiNext ==
    \E t \in Threads :
        \/ \E order_type \in Sides, ticker \in Instruments,
              quantity \in {1, MaxQty}, price \in 1..MaxPrice :
               enter_add_order(t, order_type, ticker, quantity, price)
        \/ Run(t)

MultiSpec == Init /\ [][MultiNext]_vars

\* The instrument of the call that thread t is inside, or enters with this
\* step.
InstrumentOf(t) ==
    IF pc[t] = "idle" THEN orders'[fr'[t].new_order].ticker
    ELSE orders[New(t)].ticker

\* A step of a call for instrument i leaves the two lists of every other
\* instrument and every Order of another instrument as they were, and the
\* trades a call returns all carry the call's instrument.
IndependentStep ==
    /\ \A t \in Threads :
        pc'[t] # pc[t] =>
            LET i == InstrumentOf(t)
            IN  /\ \A j \in Instruments \ {i} :
                       /\ buy_orders'[j] = buy_orders[j]
                       /\ sell_orders'[j] = sell_orders[j]
                /\ \A o \in 1..Len(orders) :
                       orders[o].ticker # i => orders'[o] = orders[o]
    /\ Len(log') = Len(log) + 1 =>
           LET c == log'[Len(log')]
           IN  \A k \in 1..Len(c.executed_trades) :
                   c.executed_trades[k][3] = c.ticker

\* C20: instruments are independent: a call of add_order for instrument i
\* never changes the lists or the quantities of an instrument j # i, and
\* every fill it returns carries instrument i, also when calls for different
\* instruments interleave.
InstrumentsIndependent == [][IndependentStep]_vars

\* Two threads are inside calls for different instruments and one of them
\* has already traded with an order resting on its instrument.
InstrumentsIndependentWitness ==
    \E t, u \in Threads :
        /\ pc[t] # "idle" /\ pc[u] # "idle"
        /\ orders[New(t)].ticker # orders[New(u)].ticker
        /\ fr[t].executed_trades # <<>>

====
